---- MODULE Spec2Model ----
(***************************************************************************)
(* Model of src/src/optimize.py: the line searches binary_search,          *)
(* golden_search and parabolic_search and the descent methods              *)
(* gradient_descent and steepest_gradient_descent of class Optimize.       *)
(*                                                                         *)
(* Numbers.  Python floats are modelled as fixed-point numbers: the        *)
(* integer n stands for the real n / Scale.  Brackets and start points are *)
(* whole numbers, so the halvings of binary_search and gradient_descent    *)
(* are exact for the loop lengths explored; a quotient that is not on the  *)
(* grid is rounded down to it.  Objective values are kept unscaled         *)
(* (units of 1/Scale^2 for the quadratics), so no comparison of two        *)
(* objective values is decided by rounding.  The resolution is the         *)
(* variable unit, fixed along a behaviour: 2^5 for the calls explored      *)
(* exhaustively, 10^6 for the runs of small_based_tests, whose products    *)
(* and sums of squares are computed without leaving 32 bits (MulDiv,       *)
(* SumSqDigits).                                                           *)
(*                                                                         *)
(* One behaviour of Spec is one call: Init is the state of the callee      *)
(* after the statements that precede its loop, each pass of the loop is    *)
(* one step, and the construction of the OptimizeResults is the last step. *)
(* SpecTwice lets the caller repeat the call, SpecPair runs two calls      *)
(* with their passes interleaved, SpecSmallBasedTests runs the descent     *)
(* methods on the arguments of small_based_tests.  SpecBenchmark is the    *)
(* benchmark harness of src/benchmarx/benchmark.py and                     *)
(* src/src/lib/benchmark.py, described where it is defined.                *)
(***************************************************************************)
EXTENDS Integers, Sequences, FiniteSets, TLC

VARIABLES
    method,          \* which classmethod of Optimize is running
    pc,              \* "loop", "done" (returned) or "raised" (exception)
    f,               \* the objective passed by the caller
    arg_a, arg_b,    \* the bracket as the caller passed it
    accuracy, max_steps,
    x0, step_size, trajectory_flag, accept_test,
    a, b, c, y, z,   \* locals of binary_search / golden_search
    x1, x2, x3, f1, f2, f3,   \* locals of parabolic_search
    x, trajectory,   \* locals of the descent methods
    success, nfev, njev, nit, i,
    result,          \* the OptimizeResults returned
    accept_calls,    \* the calls made to accept_test: <<iterate, returned value>>
    f_evals,         \* evaluations of the objective f made by the call so far
    df_evals,        \* evaluations of df made by the method itself so far
    line_searches,   \* the golden_search calls made: arguments and result
    unit,            \* fixed-point resolution of this call: units per 1.0
    made,            \* calls the caller has completed before this one
    first,           \* how the caller's first call ended: <<pc, result>>
    other,           \* the frame of a second call in flight, suspended
    version,         \* which module runs: "optimize", "benchmarx" or "lib"
    params,          \* the hyperparameter dict of the method entry
    runs, run,       \* Benchmark.runs and the index of the run at hand
    runs_dict,       \* the results stored so far: run index -> result
    cls,             \* "linesearch" in params, as computed once per entry
    condition,       \* the local of that name of the GRADIENT_DESCENT branch
    solver,          \* the solver object handed to __run_solver
    kwargs,          \* the keyword arguments of the __run_solver call
    tol, state, sol, iters_total,    \* locals of __run_solver
    nfev_global, njev_global, nhev_global,
    str_metrics_to_track,
    error,           \* the exception that ended the run, or "none"
    run_kwargs,      \* the kwargs of every __run_solver call made so far
    run_evals        \* traced evaluations made since this run was entered

vars == <<method, pc, f, arg_a, arg_b, accuracy, max_steps, x0, step_size,
          trajectory_flag, accept_test, a, b, c, y, z, x1, x2, x3, f1, f2, f3,
          x, trajectory, success, nfev, njev, nit, i, result, accept_calls,
          f_evals, df_evals, line_searches, unit, made, first, other,
          version, params, runs, run, runs_dict, cls, condition, solver,
          kwargs, tol, state, sol, iters_total, nfev_global, njev_global,
          nhev_global, str_metrics_to_track, error, run_kwargs, run_evals>>

(* The state of the benchmark harness *)
bench == <<version, params, runs, run, runs_dict, cls, condition, solver,
           kwargs, tol, state, sol, iters_total, nfev_global, njev_global,
           nhev_global, str_metrics_to_track, error, run_kwargs, run_evals>>

----------------------------------------------------------------------------
(* Bounds of the explored inputs *)

MaxSteps == 3
MaxCoord == 4

(* Fixed-point resolutions, in units per 1.0: the coarse grid of the calls  *)
(* explored exhaustively, and the fine grid of the documented test run,    *)
(* on which 1e-6 is one unit                                               *)
CoarseUnit == 2^5
FineUnit == 10^6

(* The resolution of the behaviour at hand *)
Scale == unit

(* golden_search's default accuracy 1e-5 (below the resolution of the      *)
(* coarse grid, where it is 0)                                             *)
DefaultAccuracy == Scale \div 100000

(* max_steps of the golden_search run inside steepest_gradient_descent *)
InnerMaxSteps == 1000

(* max_steps of the runs of small_based_tests *)
TestMaxSteps == 2000

----------------------------------------------------------------------------
(* Arithmetic *)

Abs(n) == IF n < 0 THEN -n ELSE n

(* Float division n / d, rounded down to the grid; d # 0 *)
Div(n, d) == IF d > 0 THEN n \div d ELSE (-n) \div (-d)

Half(n) == n \div 2

VecSub(u, v) == [k \in DOMAIN u |-> u[k] - v[k]]

(* <<q, r>> with m * n = q * d + r and 0 <= r < d, for 0 <= m < d and       *)
(* n >= 0, by doubling: no intermediate value exceeds 3 * d                *)
RECURSIVE MulMod(_, _, _)
MulMod(m, n, d) ==
    IF n = 0
    THEN <<0, 0>>
    ELSE LET h == MulMod(m, n \div 2, d)
             t == 2 * h[2] + (n % 2) * m
         IN  <<2 * h[1] + t \div d, t % d>>

(* The float product m * n of two fixed-point numbers of resolution d,     *)
(* rounded down to the grid: floor(m * n / d), d > 0                       *)
MulDiv(m, n, d) ==
    LET am == Abs(m)
        an == Abs(n)
        h  == MulMod(am % d, an, d)
        q  == (am \div d) * an + h[1]
    IN  IF (m < 0) = (n < 0) \/ m = 0 \/ n = 0
        THEN q
        ELSE IF h[2] = 0 THEN -q ELSE -q - 1

(* alpha * v for a fixed-point scalar alpha *)
VecScale(alpha, v) == [k \in DOMAIN v |-> MulDiv(alpha, v[k], Scale)]

RECURSIVE SumSq(_, _)
SumSq(v, n) == IF n = 0 THEN 0 ELSE v[n] * v[n] + SumSq(v, n - 1)

(* Sums of squares too large for one machine integer are kept as three     *)
(* digits <<d2, d1, d0>> of base Limb, standing for d2 * Limb^2 +           *)
(* d1 * Limb + d0; the digits are brought below Limb by Carry              *)
Limb == 2^12

SqDigits(n) ==
    LET h == Abs(n) \div Limb
        l == Abs(n) % Limb
    IN  <<h * h, 2 * h * l, l * l>>

RECURSIVE SumSqDigits(_, _)
SumSqDigits(v, n) ==
    IF n = 0
    THEN <<0, 0, 0>>
    ELSE LET s == SqDigits(v[n])
             r == SumSqDigits(v, n - 1)
         IN  <<s[1] + r[1], s[2] + r[2], s[3] + r[3]>>

Carry(d) ==
    LET m == d[2] + d[3] \div Limb
    IN  <<d[1] + m \div Limb, m % Limb, d[3] % Limb>>

(* p <= q for two such numbers *)
DigitsLeq(p, q) ==
    LET u == Carry(p)
        w == Carry(q)
    IN  \/ u[1] < w[1]
        \/ u[1] = w[1] /\ u[2] < w[2]
        \/ u[1] = w[1] /\ u[2] = w[2] /\ u[3] <= w[3]

----------------------------------------------------------------------------
(* Objectives *)

(* The point [1, 1] of f(x) = sum (x_i - 1)^2 *)
Ones == <<Scale, Scale>>

(* f(x) = sum (x_i - 1)^2, in units of 1/Scale^2 *)
VecF(v) == SumSq(VecSub(v, Ones), Len(v))

(* df(x) = 2 (x - 1) *)
VecDf(v) == [k \in DOMAIN v |-> 2 * (v[k] - Scale)]

(* The scalar objective handed to a line search:                          *)
(*   quad: t -> (t - m)^2          abs: t -> |t - m|                        *)
(*   line: alpha -> f(x - alpha * grad), steepest descent's lambda         *)
F(fn, t) ==
    CASE fn.kind = "quad" -> (t - fn.m) * (t - fn.m)
      [] fn.kind = "abs"  -> Abs(t - fn.m)
      [] fn.kind = "line" -> VecF(VecSub(fn.x, VecScale(t, fn.grad)))

(* f(s) <= f(t), compared exactly *)
FLeq(fn, s, t) ==
    IF fn.kind = "line"
    THEN DigitsLeq(SumSqDigits(VecSub(VecSub(fn.x, VecScale(s, fn.grad)), Ones), Len(fn.x)),
                   SumSqDigits(VecSub(VecSub(fn.x, VecScale(t, fn.grad)), Ones), Len(fn.x)))
    ELSE F(fn, s) <= F(fn, t)

(* Mutant: the tolerance is Limb times too loose *)
NormTestLoose(v, eps) ==
    eps >= 0 /\ DigitsLeq(SumSqDigits(VecDf(v), Len(v)), <<0, eps * Scale, 0>>)

(* accept_test(df, x, eps) = ||df(x)||^2 <= eps *)
NormTest(v, eps) ==
    eps >= 0 /\ DigitsLeq(SumSqDigits(VecDf(v), Len(v)), <<0, 0, eps * Scale>>)

(* Mutant: the norm test is applied even when accept_test is omitted *)
AcceptsByDefault(v) == NormTest(v, accuracy)

(* "accept_test and accept_test(df, x, accuracy)" *)
Accepts(v) == accept_test # "None" /\ NormTest(v, accuracy)

----------------------------------------------------------------------------
(* Loop bodies of the line searches *)

(* Mutant: the first comparison keeps the upper half instead of the lower *)
BinaryBodyWrongHalf(fn, lo, hi, mid) ==
    IF FLeq(fn, Half(lo + mid), mid)
    THEN [a |-> mid, b |-> hi, c |-> Half(hi + mid), nfev |-> 2, evals |-> 2]
    ELSE [a |-> lo, b |-> mid, c |-> Half(lo + mid), nfev |-> 4, evals |-> 4]

(* Mutant: the last branch moves a but leaves the centre where it was *)
BinaryBodyStaleCentre(fn, lo, hi, mid) ==
    LET yy == Half(lo + mid)
        zz == Half(hi + mid)
    IN  IF FLeq(fn, yy, mid)
        THEN [a |-> lo, b |-> mid, c |-> yy, nfev |-> 2, evals |-> 2]
        ELSE IF FLeq(fn, mid, zz)
             THEN [a |-> yy, b |-> zz, c |-> mid, nfev |-> 4, evals |-> 4]
             ELSE [a |-> mid, b |-> hi, c |-> mid, nfev |-> 4, evals |-> 4]

(* binary_search, lines 24-38: one pass that did not break; nfev is what   *)
(* the pass adds to the counter, evals the evaluations of f it makes       *)
(* (f(y) and f(c) at line 27, f(c) and f(z) at line 33)                    *)
BinaryBody(fn, lo, hi, mid) ==
    LET yy == Half(lo + mid)
        zz == Half(hi + mid)
    IN  IF FLeq(fn, yy, mid)
        THEN [a |-> lo, b |-> mid, c |-> yy, nfev |-> 2, evals |-> 2]
        ELSE IF FLeq(fn, mid, zz)
             THEN [a |-> yy, b |-> zz, c |-> mid, nfev |-> 4, evals |-> 4]
             ELSE [a |-> mid, b |-> hi, c |-> zz, nfev |-> 4, evals |-> 4]

(* Mutant: the width is multiplied by tau instead of divided by it *)
TimesTau(w) == Div(w * 987, 610)

(* w / tau and w / tau**2 with tau = (sqrt(5) + 1) / 2; 1/tau is taken as  *)
(* the ratio 610/987 of two Fibonacci numbers, 1/tau**2 as 377/987         *)
OverTau(w) == Div(w * 610, 987)

OverTauSq(w) == Div(w * 377, 987)

(* Mutant: the first branch recomputes y but does not shift z to the old y *)
GoldenBodyNoShift(fn, lo, hi, yy, zz) ==
    IF FLeq(fn, yy, zz)
    THEN [a |-> lo, b |-> zz, y |-> lo + OverTauSq(zz - lo), z |-> zz]
    ELSE [a |-> yy, b |-> hi, y |-> zz, z |-> yy + OverTau(hi - yy)]

(* golden_search, lines 65-74: one pass that did not break *)
GoldenBody(fn, lo, hi, yy, zz) ==
    IF FLeq(fn, yy, zz)
    THEN [a |-> lo, b |-> zz, y |-> lo + OverTauSq(zz - lo), z |-> yy]
    ELSE [a |-> yy, b |-> hi, y |-> zz, z |-> yy + OverTau(hi - yy)]

(* Mutant: the break test inverted, as in parabolic_search *)
GoldenWide(lo, hi, acc) == hi - lo > acc

(* golden_search's break test, line 62 *)
GoldenNarrow(lo, hi, acc) == hi - lo <= acc

(* golden_search as a whole (lines 54-75), for the call made by            *)
(* steepest_gradient_descent: the state when the loop is left              *)
RECURSIVE GoldenLoop(_, _, _, _, _, _, _, _)
GoldenLoop(fn, lo, hi, yy, zz, acc, steps, n) ==
    IF n >= steps
    THEN [a |-> lo, b |-> hi, nit |-> n, success |-> FALSE]
    ELSE IF GoldenNarrow(lo, hi, acc)
         THEN [a |-> lo, b |-> hi, nit |-> n, success |-> TRUE]
         ELSE LET s == GoldenBody(fn, lo, hi, yy, zz)
              IN  GoldenLoop(fn, s.a, s.b, s.y, s.z, acc, steps, n + 1)

(* The OptimizeResults of golden_search(fn, lo, hi, acc, steps) *)
GoldenSearch(fn, lo, hi, acc, steps) ==
    LET s == GoldenLoop(fn, lo, hi, lo + OverTauSq(hi - lo), lo + OverTau(hi - lo),
                        acc, steps, 0)
        x_opt == Half(s.a + s.b)
    IN  [success |-> s.success, message |-> "", fun |-> F(fn, x_opt),
         jac |-> "None", nfev |-> 2 * s.nit, njev |-> 0, nhev |-> 0,
         nit |-> s.nit, x |-> x_opt]

(* parabolic_search, line 102: numerator and denominator of the vertex step *)
VertexNum(p1, p2, p3, v1, v2, v3) ==
    (p2 - p1) * (p2 - p1) * (v2 - v3) - (p2 - p3) * (p2 - p3) * (v2 - v1)

VertexDen(p1, p2, p3, v1, v2, v3) ==
    2 * ((p2 - p1) * (v2 - v3) - (p2 - p3) * (v2 - v1))

(* parabolic_search, lines 107-120: the new triple, given the vertex u *)
ParabolicBody(p1, p2, p3, v1, v2, v3, u, fu) ==
    IF p2 <= u
    THEN IF v2 <= fu
         THEN [x1 |-> p1, x2 |-> p2, x3 |-> u, f1 |-> v1, f2 |-> v2, f3 |-> fu]
         ELSE [x1 |-> p2, x2 |-> u, x3 |-> p3, f1 |-> v2, f2 |-> fu, f3 |-> v3]
    ELSE IF fu <= v2
         THEN [x1 |-> p1, x2 |-> u, x3 |-> p2, f1 |-> v1, f2 |-> fu, f3 |-> v2]
         ELSE [x1 |-> u, x2 |-> p2, x3 |-> p3, f1 |-> fu, f2 |-> v2, f3 |-> v3]

(* Mutant: the break test of the other two searches *)
ParabolicNarrow(p1, p3, acc) == p3 - p1 <= acc

(* parabolic_search's break test, line 100 *)
ParabolicBreak(p1, p3, acc) == p3 - p1 > acc

(* binary_search's break test, line 21 *)
BinaryNarrow(lo, hi, acc) == Abs(hi - lo) <= acc

----------------------------------------------------------------------------
(* Update rules of the descent methods *)

(* Mutant: the step is taken up the gradient *)
GdAscent(v, step) == VecSub(v, VecScale(-step, VecDf(v)))

(* gradient_descent, line 155: x - step_size * df(x) *)
GdUpdate(v, step) == VecSub(v, VecScale(step, VecDf(v)))

(* The lambda of line 194 *)
LineF(v) == [kind |-> "line", x |-> v, grad |-> VecDf(v)]

(* Mutant: the outer step budget is passed on to golden_search *)
SgdCallOuterBudget(v) ==
    [a |-> 0, b |-> Scale, accuracy |-> DefaultAccuracy, max_steps |-> max_steps]

(* The arguments of the golden_search call of line 194: a = 0, b = 1,      *)
(* max_steps = 1000 and, accuracy not being passed, its default            *)
SgdCall(v) ==
    [a |-> 0, b |-> Scale, accuracy |-> DefaultAccuracy, max_steps |-> InnerMaxSteps]

(* steepest_gradient_descent, lines 193-195 *)
SgdStep(v) ==
    GoldenSearch(LineF(v), SgdCall(v).a, SgdCall(v).b, SgdCall(v).accuracy,
                 SgdCall(v).max_steps)

(* Mutant: the step found by the line search is not used *)
SgdUpdateUnitStep(v) == VecSub(v, VecDf(v))

(* steepest_gradient_descent, line 195: x - step_size.x * grad *)
SgdUpdate(v) == VecSub(v, VecScale(SgdStep(v).x, VecDf(v)))

----------------------------------------------------------------------------
(* The calls explored *)

Searches == {"binary_search", "golden_search", "parabolic_search"}

Descents == {"gradient_descent", "steepest_gradient_descent"}

Coords == {k * Scale : k \in 0..MaxCoord}

Objectives == [kind : {"quad", "abs"}, m : Coords]

(* f(x) = sum (x_i - 1)^2 of small_based_tests *)
SumSquares == [kind |-> "sumsq"]

Accuracies == {-Scale, 0, Scale \div 2, Scale, 2 * Scale}

StepCounts == -1..MaxSteps

StepSizes == {Scale \div 4, Scale \div 2, Scale}

Points == {<<p, q>> : p \in Coords, q \in Coords}

NoResult == <<>>

(* Variables a method does not have keep these values *)
NoSearchLocals ==
    /\ a = 0 /\ b = 0 /\ c = 0 /\ y = 0 /\ z = 0
    /\ x1 = 0 /\ x2 = 0 /\ x3 = 0 /\ f1 = 0 /\ f2 = 0 /\ f3 = 0

NoDescentArgs ==
    /\ x0 = <<>> /\ step_size = 0 /\ trajectory_flag = FALSE
    /\ accept_test = "None" /\ x = <<>> /\ trajectory = <<>>

(* Lines 15-18, 54-57, 91-94, 145-148, 183-186 *)
Counters ==
    /\ success = FALSE /\ nfev = 0 /\ njev = 0 /\ nit = 0 /\ i = 0
    /\ pc = "loop" /\ result = NoResult /\ accept_calls = <<>>
    /\ df_evals = 0 /\ line_searches = <<>>

(* binary_search up to its loop, lines 15-19 *)
InitBinary ==
    /\ method = "binary_search"
    /\ a = arg_a /\ b = arg_b /\ c = Half(arg_a + arg_b)
    /\ y = 0 /\ z = 0
    /\ f_evals = 0
    /\ x1 = 0 /\ x2 = 0 /\ x3 = 0 /\ f1 = 0 /\ f2 = 0 /\ f3 = 0

(* golden_search up to its loop, lines 54-60 *)
InitGolden ==
    /\ method = "golden_search"
    /\ a = arg_a /\ b = arg_b /\ c = 0
    /\ y = arg_a + OverTauSq(arg_b - arg_a)
    /\ z = arg_a + OverTau(arg_b - arg_a)
    /\ f_evals = 0
    /\ x1 = 0 /\ x2 = 0 /\ x3 = 0 /\ f1 = 0 /\ f2 = 0 /\ f3 = 0

(* parabolic_search up to its loop, lines 91-98 *)
InitParabolic ==
    /\ method = "parabolic_search"
    /\ a = arg_a /\ b = arg_b /\ c = 0 /\ y = 0 /\ z = 0
    /\ x1 = arg_a /\ x3 = arg_b /\ x2 = Half(arg_a + arg_b)
    /\ f1 = F(f, arg_a) /\ f2 = F(f, Half(arg_a + arg_b)) /\ f3 = F(f, arg_b)
    /\ f_evals = 3

InitSearch ==
    /\ arg_a \in Coords /\ arg_b \in Coords
    /\ f \in Objectives
    /\ accuracy \in Accuracies
    /\ max_steps \in StepCounts
    /\ NoDescentArgs
    /\ Counters
    /\ (InitBinary \/ InitGolden \/ InitParabolic)

(* gradient_descent and steepest_gradient_descent up to their loops,       *)
(* lines 143-148 and 181-186 *)
InitDescent ==
    /\ method \in Descents
    /\ f = SumSquares
    /\ arg_a = 0 /\ arg_b = 0
    /\ accuracy \in Accuracies
    /\ max_steps \in StepCounts
    /\ x0 \in Points
    /\ step_size \in (IF method = "gradient_descent" THEN StepSizes ELSE {0})
    /\ trajectory_flag \in BOOLEAN
    /\ accept_test \in {"None", "norm_test"}
    /\ x = x0 /\ trajectory = <<>>
    /\ f_evals = 0
    /\ NoSearchLocals
    /\ Counters

(* Mutant: the update "x -= ..." made in place, in the caller's array *)
StartInPlace == x

(* "x = x0", lines 144 and 182: the caller's x0, which no statement of the *)
(* call writes to                                                          *)
Start == x0

(* The locals of a call when it reaches its loop, as its first lines set   *)
(* them from its arguments: lines 15-19, 54-60, 91-98, 143-148, 181-186    *)
Entry ==
    LET line == method \in Searches
        par  == method = "parabolic_search"
        gold == method = "golden_search"
    IN  [a  |-> IF line THEN arg_a ELSE 0,
         b  |-> IF line THEN arg_b ELSE 0,
         c  |-> IF method = "binary_search" THEN Half(arg_a + arg_b) ELSE 0,
         y  |-> IF gold THEN arg_a + OverTauSq(arg_b - arg_a) ELSE 0,
         z  |-> IF gold THEN arg_a + OverTau(arg_b - arg_a) ELSE 0,
         x1 |-> IF par THEN arg_a ELSE 0,
         x2 |-> IF par THEN Half(arg_a + arg_b) ELSE 0,
         x3 |-> IF par THEN arg_b ELSE 0,
         f1 |-> IF par THEN F(f, arg_a) ELSE 0,
         f2 |-> IF par THEN F(f, Half(arg_a + arg_b)) ELSE 0,
         f3 |-> IF par THEN F(f, arg_b) ELSE 0,
         x  |-> Start,
         trajectory |-> <<>>,
         success |-> FALSE, nfev |-> 0, njev |-> 0, nit |-> 0]

(* Optimize is called directly: no benchmark is running *)
NoBenchmark ==
    /\ version = "optimize"
    /\ params = <<>> /\ runs = 0 /\ run = 0 /\ runs_dict = <<>>
    /\ cls = FALSE /\ condition = "unbound" /\ solver = <<>> /\ kwargs = <<>>
    /\ tol = 0 /\ state = 0 /\ sol = 0 /\ iters_total = 0
    /\ nfev_global = 0 /\ njev_global = 0 /\ nhev_global = 0
    /\ str_metrics_to_track = {} /\ error = "none"
    /\ run_kwargs = <<>> /\ run_evals = <<0, 0>>

(* The caller has made no call yet *)
FirstCall == made = 0 /\ first = <<>> /\ other = <<>>

Init == unit = CoarseUnit /\ FirstCall /\ NoBenchmark /\ (InitSearch \/ InitDescent)

(* accuracy = 1e-6 of small_based_tests *)
TestAccuracy == Scale \div 1000000

(* Conservative fixed steps: 0.1 and 0.25 *)
TestStepSizes == {Scale \div 10, Scale \div 4}

(* x0 = [4, 3] of small_based_tests *)
TestStart == <<4 * Scale, 3 * Scale>>

(* The runs of small_based_tests on its f, df and accept_test, on the fine *)
(* grid: accuracy = 1e-6, max_steps = 2000, from [4, 3] and from the other *)
(* start points                                                            *)
InitSmallBasedTests ==
    /\ unit = FineUnit
    /\ FirstCall /\ NoBenchmark
    /\ method \in Descents
    /\ f = SumSquares
    /\ arg_a = 0 /\ arg_b = 0
    /\ accuracy = TestAccuracy
    /\ max_steps = TestMaxSteps
    /\ x0 \in Points \cup {TestStart}
    /\ step_size \in (IF method = "gradient_descent" THEN TestStepSizes ELSE {0})
    /\ trajectory_flag \in BOOLEAN
    /\ accept_test = "norm_test"
    /\ x = x0 /\ trajectory = <<>>
    /\ f_evals = 0
    /\ NoSearchLocals
    /\ Counters

(* Mutant: one pass too many, range(max_steps + 1) *)
LoopRunsOnceMore == i <= max_steps

(* "for _ in range(max_steps)", lines 20, 61, 99, 149, 187: the loop has   *)
(* another pass to make                                                    *)
LoopRuns == i < max_steps

(* What a running call never changes: its arguments, and what its caller   *)
(* holds, and the frames of the other calls in flight                      *)
args == <<method, f, arg_a, arg_b, accuracy, max_steps, x0, step_size,
          trajectory_flag, accept_test, unit, made, first, other, bench>>

binaryGolden == <<a, b, c, y, z>>

parabolic == <<x1, x2, x3, f1, f2, f3>>

descent == <<x, trajectory, accept_calls>>

----------------------------------------------------------------------------
(* The line searches *)

(* The OptimizeResults of a line search, lines 39-49, 76-86, 122-132 *)
SearchResult(ok, at) ==
    [success |-> ok, message |-> "", fun |-> F(f, at), jac |-> "None",
     nfev |-> nfev, njev |-> njev, nhev |-> 0, nit |-> nit, x |-> at]

(* binary_search, lines 20-38: a pass of the loop that does not break *)
BinaryIterate ==
    /\ method = "binary_search" /\ pc = "loop"
    /\ LoopRuns
    /\ ~BinaryNarrow(a, b, accuracy)
    /\ LET s == BinaryBody(f, a, b, c)
       IN  /\ a' = s.a /\ b' = s.b /\ c' = s.c
           /\ nfev' = nfev + s.nfev
    /\ nit' = nit + 1
    /\ i' = i + 1
    /\ f_evals' = f_evals + BinaryBody(f, a, b, c).evals
    /\ UNCHANGED <<args, df_evals, line_searches, pc, y, z, parabolic, descent, success, njev, result>>

(* binary_search, lines 21-23 and 39-50: break or exhaustion, then return *)
BinaryReturn ==
    /\ method = "binary_search" /\ pc = "loop"
    /\ ~LoopRuns \/ BinaryNarrow(a, b, accuracy)
    /\ success' = LoopRuns
    /\ result' = SearchResult(LoopRuns, c)
    /\ pc' = "done"
    /\ f_evals' = f_evals + 1
    /\ UNCHANGED <<args, df_evals, line_searches, binaryGolden, parabolic, descent, nfev, njev, nit, i>>

(* golden_search, lines 61-74: a pass of the loop that does not break *)
GoldenIterate ==
    /\ method = "golden_search" /\ pc = "loop"
    /\ LoopRuns
    /\ ~GoldenNarrow(a, b, accuracy)
    /\ LET s == GoldenBody(f, a, b, y, z)
       IN  a' = s.a /\ b' = s.b /\ y' = s.y /\ z' = s.z
    /\ nit' = nit + 1
    /\ nfev' = nfev + 2
    /\ i' = i + 1
    /\ f_evals' = f_evals + 2
    /\ UNCHANGED <<args, df_evals, line_searches, pc, c, parabolic, descent, success, njev, result>>

(* golden_search, lines 62-64 and 75-87 *)
GoldenReturn ==
    /\ method = "golden_search" /\ pc = "loop"
    /\ ~LoopRuns \/ GoldenNarrow(a, b, accuracy)
    /\ success' = LoopRuns
    /\ result' = SearchResult(LoopRuns, Half(a + b))
    /\ pc' = "done"
    /\ f_evals' = f_evals + 1
    /\ UNCHANGED <<args, df_evals, line_searches, binaryGolden, parabolic, descent, nfev, njev, nit, i>>

(* parabolic_search, lines 99-120: a pass of the loop that does not break *)
ParabolicIterate ==
    /\ method = "parabolic_search" /\ pc = "loop"
    /\ LoopRuns
    /\ ~ParabolicBreak(x1, x3, accuracy)
    /\ VertexDen(x1, x2, x3, f1, f2, f3) # 0
    /\ LET u  == x2 - Div(VertexNum(x1, x2, x3, f1, f2, f3),
                          VertexDen(x1, x2, x3, f1, f2, f3))
           s  == ParabolicBody(x1, x2, x3, f1, f2, f3, u, F(f, u))
       IN  /\ x1' = s.x1 /\ x2' = s.x2 /\ x3' = s.x3
           /\ f1' = s.f1 /\ f2' = s.f2 /\ f3' = s.f3
    /\ nit' = nit + 1
    /\ nfev' = nfev + 1
    /\ i' = i + 1
    /\ f_evals' = f_evals + 1
    /\ UNCHANGED <<args, df_evals, line_searches, pc, binaryGolden, descent, success, njev, result>>

(* parabolic_search, line 102 with a zero denominator: ZeroDivisionError *)
ParabolicRaise ==
    /\ method = "parabolic_search" /\ pc = "loop"
    /\ LoopRuns
    /\ ~ParabolicBreak(x1, x3, accuracy)
    /\ VertexDen(x1, x2, x3, f1, f2, f3) = 0
    /\ pc' = "raised"
    /\ UNCHANGED <<args, f_evals, df_evals, line_searches, binaryGolden, parabolic, descent, success, nfev, njev,
                   nit, i, result>>

(* parabolic_search, lines 100-101 and 121-133; success is never set *)
ParabolicReturn ==
    /\ method = "parabolic_search" /\ pc = "loop"
    /\ ~LoopRuns \/ ParabolicBreak(x1, x3, accuracy)
    /\ result' = SearchResult(success, Half(x1 + x3))
    /\ pc' = "done"
    /\ f_evals' = f_evals + 1
    /\ UNCHANGED <<args, df_evals, line_searches, binaryGolden, parabolic, descent, success, nfev, njev,
                   nit, i>>

----------------------------------------------------------------------------
(* The descent methods *)

(* Lines 150-151 and 188-189: "if trajectory_flag: trajectory.append(x)" *)
Record(traj, v) == IF trajectory_flag THEN Append(traj, v) ELSE traj

(* The call of accept_test of lines 152 and 190, when one was supplied *)
Asked(calls, v) ==
    IF accept_test # "None" THEN Append(calls, <<v, Accepts(v)>>) ELSE calls

(* Mutant: the trajectory records the iterate after the update *)
GdPassRecordsAfter(v, traj, step) ==
    [x |-> GdUpdate(v, step), trajectory |-> Record(traj, GdUpdate(v, step))]

(* gradient_descent, lines 150-157: a pass of the loop that does not break *)
GdPass(v, traj, step) ==
    [x |-> GdUpdate(v, step), trajectory |-> Record(traj, v)]

(* steepest_gradient_descent, lines 188-197: a pass that does not break *)
SgdPass(v, traj) ==
    [x |-> SgdUpdate(v), trajectory |-> Record(traj, v)]

(* Mutant: the update is made before accept_test stops the loop *)
BreakPassUpdates(v, traj) ==
    [x |-> VecSub(v, VecScale(Scale \div 4, VecDf(v))), trajectory |-> Record(traj, v)]

(* Lines 150-154 and 188-192: the pass in which accept_test returns true *)
BreakPass(v, traj) == [x |-> v, trajectory |-> Record(traj, v)]

(* Mutant: the evaluation of df for jac is counted in njev *)
DescentResultCountsJac(ok, v, traj) ==
    LET r == [success |-> ok, message |-> "", fun |-> VecF(v), jac |-> VecDf(v),
              nfev |-> nfev, njev |-> njev + 1, nhev |-> 0, nit |-> nit, x |-> v]
    IN  IF trajectory_flag
        THEN [k \in DOMAIN r \cup {"trajectory"} |->
                 IF k = "trajectory" THEN traj ELSE r[k]]
        ELSE r

(* The OptimizeResults of a descent method, lines 158-172 and 198-212 *)
DescentResult(ok, v, traj) ==
    LET r == [success |-> ok, message |-> "", fun |-> VecF(v), jac |-> VecDf(v),
              nfev |-> nfev, njev |-> njev, nhev |-> 0, nit |-> nit, x |-> v]
    IN  IF trajectory_flag
        THEN [k \in DOMAIN r \cup {"trajectory"} |->
                 IF k = "trajectory" THEN traj ELSE r[k]]
        ELSE r

GdIterate ==
    /\ method = "gradient_descent" /\ pc = "loop"
    /\ LoopRuns
    /\ ~Accepts(x)
    /\ LET s == GdPass(x, trajectory, step_size)
       IN  x' = s.x /\ trajectory' = s.trajectory
    /\ accept_calls' = Asked(accept_calls, x)
    /\ njev' = njev + 1
    /\ nit' = nit + 1
    /\ i' = i + 1
    /\ df_evals' = df_evals + 1
    /\ UNCHANGED <<args, f_evals, line_searches, pc, binaryGolden, parabolic, success, nfev, result>>

SgdIterate ==
    /\ method = "steepest_gradient_descent" /\ pc = "loop"
    /\ LoopRuns
    /\ ~Accepts(x)
    /\ LET s == SgdPass(x, trajectory)
       IN  x' = s.x /\ trajectory' = s.trajectory
    /\ accept_calls' = Asked(accept_calls, x)
    /\ njev' = njev + 1
    /\ nit' = nit + 1
    /\ i' = i + 1
    /\ df_evals' = df_evals + 1
    /\ f_evals' = f_evals + SgdStep(x).nfev + 1
    /\ line_searches' = Append(line_searches, [call |-> SgdCall(x), ret |-> SgdStep(x)])
    /\ UNCHANGED <<args, pc, binaryGolden, parabolic, success, nfev, result>>

(* Lines 150-154 / 188-192 when accept_test returns true, or the loop      *)
(* exhausted, and then lines 158-172 / 198-212                             *)
DescentReturn ==
    /\ method \in Descents /\ pc = "loop"
    /\ ~LoopRuns \/ Accepts(x)
    /\ LET s == IF LoopRuns THEN BreakPass(x, trajectory)
                ELSE [x |-> x, trajectory |-> trajectory]
       IN  /\ x' = s.x /\ trajectory' = s.trajectory
           /\ result' = DescentResult(LoopRuns, s.x, s.trajectory)
    /\ accept_calls' = IF LoopRuns THEN Asked(accept_calls, x) ELSE accept_calls
    /\ success' = LoopRuns
    /\ pc' = "done"
    /\ f_evals' = f_evals + 1
    /\ df_evals' = df_evals + 1
    /\ UNCHANGED <<args, line_searches, binaryGolden, parabolic, nfev, njev, nit, i>>

----------------------------------------------------------------------------

Next ==
    \/ BinaryIterate \/ BinaryReturn
    \/ GoldenIterate \/ GoldenReturn
    \/ ParabolicIterate \/ ParabolicRaise \/ ParabolicReturn
    \/ GdIterate \/ SgdIterate \/ DescentReturn

Spec == Init /\ [][Next]_vars

(* The caller, its first call over, makes the same call again: the same    *)
(* method with the same arguments, which runs from its first line          *)
CallAgain ==
    /\ pc # "loop" /\ made = 0
    /\ made' = 1 /\ first' = <<pc, result>>
    /\ UNCHANGED <<method, f, arg_a, arg_b, accuracy, max_steps, x0, step_size,
                   trajectory_flag, accept_test, unit, other, bench>>
    /\ a' = Entry.a /\ b' = Entry.b /\ c' = Entry.c
    /\ y' = Entry.y /\ z' = Entry.z
    /\ x1' = Entry.x1 /\ x2' = Entry.x2 /\ x3' = Entry.x3
    /\ f1' = Entry.f1 /\ f2' = Entry.f2 /\ f3' = Entry.f3
    /\ x' = Entry.x /\ trajectory' = Entry.trajectory
    /\ success' = Entry.success
    /\ nfev' = Entry.nfev /\ njev' = Entry.njev /\ nit' = Entry.nit
    /\ i' = 0 /\ pc' = "loop" /\ result' = NoResult
    /\ accept_calls' = <<>> /\ df_evals' = 0 /\ line_searches' = <<>>
    /\ f_evals' = IF method = "parabolic_search" THEN 3 ELSE 0

NextTwice == Next \/ CallAgain

SpecTwice == Init /\ [][NextTwice]_vars

(* Two calls in flight *)

(* The calls made side by side: golden_search and gradient_descent *)
GoldenCalls ==
    {[method |-> "golden_search", f |-> fn, arg_a |-> 0, arg_b |-> MaxCoord * Scale,
      accuracy |-> acc, max_steps |-> n, x0 |-> <<>>, step_size |-> 0,
      trajectory_flag |-> FALSE, accept_test |-> "None"] :
        fn \in {[kind |-> "quad", m |-> Scale], [kind |-> "abs", m |-> 3 * Scale]},
        acc \in {Scale \div 2, 2 * Scale}, n \in {1, MaxSteps}}

GdCalls ==
    {[method |-> "gradient_descent", f |-> SumSquares, arg_a |-> 0, arg_b |-> 0,
      accuracy |-> Scale, max_steps |-> n, x0 |-> p, step_size |-> s,
      trajectory_flag |-> TRUE, accept_test |-> "norm_test"] :
        p \in {<<0, Scale>>, <<MaxCoord * Scale, 3 * Scale>>},
        s \in {Scale \div 4, Scale \div 2}, n \in {1, MaxSteps}}

PairCalls == GoldenCalls \cup GdCalls

(* The frame of the running call: its arguments and locals.  The flag mid  *)
(* records that some switch found both calls inside their loops.           *)
Frame(mid) ==
    [method |-> method, pc |-> pc, f |-> f, arg_a |-> arg_a, arg_b |-> arg_b,
     accuracy |-> accuracy, max_steps |-> max_steps, x0 |-> x0,
     step_size |-> step_size, trajectory_flag |-> trajectory_flag,
     accept_test |-> accept_test,
     a |-> a, b |-> b, c |-> c, y |-> y, z |-> z,
     x1 |-> x1, x2 |-> x2, x3 |-> x3, f1 |-> f1, f2 |-> f2, f3 |-> f3,
     x |-> x, trajectory |-> trajectory, success |-> success,
     nfev |-> nfev, njev |-> njev, nit |-> nit, i |-> i, result |-> result,
     accept_calls |-> accept_calls, f_evals |-> f_evals, df_evals |-> df_evals,
     line_searches |-> line_searches, mid |-> mid]

(* Mutant: nit is one counter shared by all calls *)
ResumedSharedNit(fr) == [fr EXCEPT !.nit = nit]

(* The frame a suspended call resumes with: its own (success, nfev, njev,  *)
(* nit, the bracket, x and trajectory are locals: lines 54-60, 143-148)    *)
Resumed(fr) == fr

InitPair ==
    /\ unit = CoarseUnit
    /\ FirstCall /\ NoBenchmark
    /\ \E call \in PairCalls :
          /\ method = call.method /\ f = call.f
          /\ arg_a = call.arg_a /\ arg_b = call.arg_b
          /\ accuracy = call.accuracy /\ max_steps = call.max_steps
          /\ x0 = call.x0 /\ step_size = call.step_size
          /\ trajectory_flag = call.trajectory_flag
          /\ accept_test = call.accept_test
    /\ a = Entry.a /\ b = Entry.b /\ c = Entry.c /\ y = Entry.y /\ z = Entry.z
    /\ x1 = Entry.x1 /\ x2 = Entry.x2 /\ x3 = Entry.x3
    /\ f1 = Entry.f1 /\ f2 = Entry.f2 /\ f3 = Entry.f3
    /\ x = Entry.x /\ trajectory = Entry.trajectory
    /\ f_evals = 0
    /\ Counters

(* A second caller calls while the first call is in flight or over: the    *)
(* first call's frame is set aside and the new call runs its first lines   *)
Spawn ==
    /\ other = <<>>
    /\ other' = Frame(FALSE)
    /\ \E call \in PairCalls :
          /\ method' = call.method /\ f' = call.f
          /\ arg_a' = call.arg_a /\ arg_b' = call.arg_b
          /\ accuracy' = call.accuracy /\ max_steps' = call.max_steps
          /\ x0' = call.x0 /\ step_size' = call.step_size
          /\ trajectory_flag' = call.trajectory_flag
          /\ accept_test' = call.accept_test
    /\ a' = Entry'.a /\ b' = Entry'.b /\ c' = Entry'.c
    /\ y' = Entry'.y /\ z' = Entry'.z
    /\ x1' = 0 /\ x2' = 0 /\ x3' = 0 /\ f1' = 0 /\ f2' = 0 /\ f3' = 0
    /\ x' = x0' /\ trajectory' = <<>>
    /\ success' = FALSE /\ nfev' = 0 /\ njev' = 0 /\ nit' = 0
    /\ i' = 0 /\ pc' = "loop" /\ result' = NoResult
    /\ accept_calls' = <<>> /\ df_evals' = 0 /\ line_searches' = <<>>
    /\ f_evals' = 0
    /\ UNCHANGED <<unit, made, first, bench>>

(* The scheduler suspends the running call between two passes of its loop  *)
(* and resumes the other                                                   *)
Switch ==
    /\ other # <<>>
    /\ other' = Frame(other.mid \/ (/\ pc = "loop" /\ i > 0
                                    /\ other.pc = "loop" /\ other.i > 0))
    /\ method' = Resumed(other).method /\ pc' = Resumed(other).pc
    /\ f' = Resumed(other).f
    /\ arg_a' = Resumed(other).arg_a /\ arg_b' = Resumed(other).arg_b
    /\ accuracy' = Resumed(other).accuracy
    /\ max_steps' = Resumed(other).max_steps
    /\ x0' = Resumed(other).x0 /\ step_size' = Resumed(other).step_size
    /\ trajectory_flag' = Resumed(other).trajectory_flag
    /\ accept_test' = Resumed(other).accept_test
    /\ a' = Resumed(other).a /\ b' = Resumed(other).b /\ c' = Resumed(other).c
    /\ y' = Resumed(other).y /\ z' = Resumed(other).z
    /\ x1' = Resumed(other).x1 /\ x2' = Resumed(other).x2
    /\ x3' = Resumed(other).x3
    /\ f1' = Resumed(other).f1 /\ f2' = Resumed(other).f2
    /\ f3' = Resumed(other).f3
    /\ x' = Resumed(other).x /\ trajectory' = Resumed(other).trajectory
    /\ success' = Resumed(other).success
    /\ nfev' = Resumed(other).nfev /\ njev' = Resumed(other).njev
    /\ nit' = Resumed(other).nit /\ i' = Resumed(other).i
    /\ result' = Resumed(other).result
    /\ accept_calls' = Resumed(other).accept_calls
    /\ f_evals' = Resumed(other).f_evals /\ df_evals' = Resumed(other).df_evals
    /\ line_searches' = Resumed(other).line_searches
    /\ UNCHANGED <<unit, made, first, bench>>

NextPair ==
    \/ GoldenIterate \/ GoldenReturn
    \/ GdIterate \/ DescentReturn
    \/ Spawn \/ Switch

SpecPair == InitPair /\ [][NextPair]_vars

NextDescent == GdIterate \/ SgdIterate \/ DescentReturn

SpecSmallBasedTests == InitSmallBasedTests /\ [][NextDescent]_vars

----------------------------------------------------------------------------
(* Properties of the descent methods *)

Returned == pc = "done"

(* The iterate after n updates of the running descent method from v *)
RECURSIVE IterateOf(_, _)
IterateOf(v, n) ==
    IF n <= 0 THEN v
    ELSE LET w == IterateOf(v, n - 1)
         IN  IF method = "gradient_descent"
             THEN VecSub(w, VecScale(step_size, VecDf(w)))
             ELSE SgdUpdate(w)

(* C1: with trajectory_flag, the returned trajectory is as long as the     *)
(* returned nit, whether the loop ran all max_steps passes or stopped      *)
(* early because accept_test returned true.                                *)
C1_TrajectoryLengthIsNit ==
    (Returned /\ method \in Descents /\ trajectory_flag)
        => Len(result.trajectory) = result.nit

(* C2: accept_test is asked about the pre-update iterate of each pass; the *)
(* first time it returns true the loop stops with success and without an   *)
(* update, so the solution is the iterate it accepted; when it accepts x0  *)
(* the solution is x0 and nit is 0.                                        *)
C2_AcceptBeforeUpdate ==
    method \in Descents =>
        /\ \A k \in DOMAIN accept_calls :
              /\ accept_calls[k][1] = IterateOf(x0, k - 1)
              /\ accept_calls[k][2] => (k = Len(accept_calls) /\ Returned)
        /\ (Returned /\ result.success) =>
              /\ accept_calls # <<>>
              /\ accept_calls[Len(accept_calls)][2]
              /\ result.x = accept_calls[Len(accept_calls)][1]
              /\ result.nit = Len(accept_calls) - 1
        /\ (Returned /\ max_steps >= 1 /\ accept_test # "None"
                /\ NormTest(x0, accuracy)) =>
              (result.success /\ result.x = x0 /\ result.nit = 0)

C2_Witness ==
    /\ Returned /\ method \in Descents
    /\ result.success /\ result.nit >= 2
    /\ result.x # x0

(* C3: success is returned exactly when accept_test was supplied and       *)
(* returned true in one of the first max_steps passes; otherwise, for      *)
(* max_steps >= 0, exactly max_steps updates are made and the call returns *)
(* success = false with an empty message; no exception is raised.          *)
C3_SuccessIffAccepted ==
    method \in Descents =>
        /\ pc # "raised"
        /\ Len(accept_calls) <= (IF max_steps > 0 THEN max_steps ELSE 0)
        /\ Returned =>
              /\ result.success = (\E k \in DOMAIN accept_calls : accept_calls[k][2])
              /\ result.success => accept_test # "None"
              /\ accept_test = "None" => accept_calls = <<>>
              /\ result.message = ""
              /\ (~result.success /\ max_steps >= 0) =>
                    /\ result.nit = max_steps
                    /\ result.njev = max_steps
                    /\ result.x = IterateOf(x0, max_steps)

C3_Witness ==
    /\ Returned /\ method \in Descents
    /\ accept_test # "None" /\ ~result.success
    /\ result.nit = MaxSteps /\ result.x # x0

(* C4: in gradient_descent with trajectory_flag, trajectory[0] is x0 and   *)
(* each entry is followed by its fixed-step update; with max_steps >= 1    *)
(* the returned trajectory is not empty.                                   *)
C4_TrajectoryIsPreUpdate ==
    (method = "gradient_descent" /\ trajectory_flag) =>
        /\ trajectory # <<>> => trajectory[1] = x0
        /\ \A k \in 1..(Len(trajectory) - 1) :
              trajectory[k + 1] =
                  VecSub(trajectory[k], VecScale(step_size, VecDf(trajectory[k])))
        /\ (Returned /\ max_steps >= 1) =>
              (result.trajectory = trajectory /\ Len(trajectory) >= 1)

C4_Witness ==
    /\ Returned /\ method = "gradient_descent" /\ trajectory_flag
    /\ Len(result.trajectory) >= 3
    /\ result.trajectory[2] # result.trajectory[1]

----------------------------------------------------------------------------
(* Properties of the line searches *)

(* The minimizer of a line-search objective lies in the caller's bracket *)
Bracketed == arg_a < arg_b /\ arg_a <= f.m /\ f.m <= arg_b

(* C5: for a unimodal objective whose minimizer lies in the bracket a < b, *)
(* a line search that returns success returns x within accuracy of the     *)
(* minimizer.                                                              *)
C5_SuccessIsAccurate ==
    (Returned /\ method \in Searches /\ Bracketed /\ result.success)
        => Abs(result.x - f.m) <= accuracy

C5_Witness ==
    /\ Returned /\ method = "golden_search" /\ Bracketed
    /\ result.success /\ result.nit >= 2
    /\ f.m # Half(arg_a + arg_b)

(* The width of the bracket as the method's break test measures it *)
Width == IF method = "binary_search" THEN Abs(b - a) ELSE b - a

(* C6 as stated: binary_search and golden_search, validly called, return   *)
(* success exactly when the bracket at return is no wider than accuracy.   *)
C6_SuccessIffNarrow ==
    (Returned /\ method \in {"binary_search", "golden_search"}
        /\ arg_a < arg_b /\ accuracy > 0 /\ max_steps >= 1)
        => (result.success <=> Width <= accuracy)

(* C6 as amended: they return success exactly when the bracket at return   *)
(* is no wider than accuracy and fewer than max_steps passes were made.    *)
C6_SuccessIffNarrowInTime ==
    (Returned /\ method \in {"binary_search", "golden_search"})
        => (result.success <=> (Width <= accuracy /\ result.nit < max_steps))

C6_Witness ==
    /\ Returned /\ method = "binary_search" /\ arg_a < arg_b
    /\ ~result.success /\ Width <= accuracy
    /\ result.nit = max_steps /\ max_steps >= 2

(* C7: for a valid call, parabolic_search iterates while x3 - x1 exceeds   *)
(* accuracy: it returns success with x3 - x1 <= accuracy, or failure after *)
(* max_steps passes, and x = (x1 + x3) / 2.                                *)
C7_ParabolicStopsWhenNarrow ==
    (Returned /\ method = "parabolic_search"
        /\ arg_a < arg_b /\ accuracy > 0 /\ max_steps >= 1)
        => /\ \/ result.success /\ x3 - x1 <= accuracy
              \/ ~result.success /\ result.nit = max_steps
           /\ result.x = Half(x1 + x3)

(* C8: in binary_search and golden_search a pass of the loop on a bracket  *)
(* with a < b never widens it.                                             *)
C8_WidthNeverGrows ==
    [][(method \in {"binary_search", "golden_search"} /\ a < b)
           => (b' - a' <= b - a)]_vars

C8_Witness ==
    /\ method = "golden_search" /\ arg_a < arg_b
    /\ nit >= 2 /\ a < b /\ b - a < arg_b - arg_a

(* C9: with max_steps = 0 no pass is made and every method returns         *)
(* success = false and nit = 0, the descent methods with x0 and the line   *)
(* searches with the midpoint of the bracket passed.                       *)
C9_ZeroStepsReturnsStart ==
    max_steps = 0 =>
        /\ pc # "raised" /\ i = 0 /\ nit = 0 /\ nfev = 0 /\ njev = 0
        /\ ~success /\ accept_calls = <<>>
        /\ Returned =>
              /\ ~result.success /\ result.nit = 0
              /\ method \in Descents => result.x = x0
              /\ method \in Searches => result.x = Half(arg_a + arg_b)

C9_Witness ==
    /\ max_steps = 0 /\ Returned
    /\ method = "golden_search" /\ arg_a < arg_b
    /\ arg_b - arg_a <= accuracy

(* C10: a line search called with a >= b, max_steps <= 0 or accuracy <= 0  *)
(* makes no pass of its loop and returns no result.                        *)
C10_InvalidInputRejected ==
    (method \in Searches
        /\ (arg_a >= arg_b \/ max_steps <= 0 \/ accuracy <= 0))
        => (~Returned /\ nit = 0)

----------------------------------------------------------------------------
(* Failure and termination *)

(* C11: in a valid call of parabolic_search a zero denominator of the      *)
(* vertex formula is detected before the division: the call never raises   *)
(* a division error.                                                       *)
C11_NoDivisionError ==
    (method = "parabolic_search"
        /\ arg_a < arg_b /\ accuracy > 0 /\ max_steps >= 1)
        => pc # "raised"

(* The passes a call of max_steps may make *)
Budget == IF max_steps > 0 THEN max_steps ELSE 0

(* C12: every call leaves its loop after at most max_steps passes: the     *)
(* pass counter and nit never exceed max_steps, every step of a call in    *)
(* its loop is one more pass or leaves the loop, the iterations returned   *)
(* are at most max_steps, and steepest_gradient_descent runs at most one   *)
(* golden_search of at most 1000 iterations per pass.                      *)
C12_Terminates ==
    /\ [](/\ i <= Budget /\ nit <= Budget
          /\ Returned => result.nit <= Budget
          /\ Len(line_searches) <= Budget
          /\ \A k \in DOMAIN line_searches :
                line_searches[k].ret.nit <= InnerMaxSteps)
    /\ [][pc = "loop" => (i' = i + 1 \/ pc' # "loop")]_vars

C12_Witness ==
    /\ Returned /\ method = "steepest_gradient_descent"
    /\ result.nit = MaxSteps /\ max_steps = MaxSteps

----------------------------------------------------------------------------
(* Evaluation counts *)

(* C15: a line search, validly called, reports as nfev the evaluations of  *)
(* f it made before the one that fills fun (2 * nit for golden_search),    *)
(* with njev = nhev = 0 and jac = None.                                    *)
C15_NfevCountsProbes ==
    (Returned /\ method \in Searches
        /\ arg_a < arg_b /\ accuracy > 0 /\ max_steps >= 1)
        => /\ result.nfev = f_evals - 1
           /\ method = "golden_search" => result.nfev = 2 * result.nit
           /\ result.njev = 0 /\ result.nhev = 0 /\ result.jac = "None"

(* C18: gradient_descent returns njev = nit = the number of updates made,  *)
(* nfev = 0 and nhev = 0, having itself evaluated df nit + 1 times and f   *)
(* once.                                                                   *)
C18_GdCounts ==
    (Returned /\ method = "gradient_descent") =>
        /\ result.njev = result.nit /\ result.nit = i
        /\ result.nfev = 0 /\ result.nhev = 0
        /\ df_evals = result.nit + 1
        /\ f_evals = 1

C18_Witness ==
    /\ Returned /\ method = "gradient_descent"
    /\ result.success /\ result.nit >= 2

(* C19: the solution gradient_descent returns is x0 after nit applications *)
(* of x <- x - step_size * df(x), one per counted iteration.               *)
C19_GdAppliesRule ==
    method = "gradient_descent" =>
        /\ nit = i
        /\ x = IterateOf(x0, nit)
        /\ Returned => result.x = IterateOf(x0, result.nit)

C19_Witness ==
    /\ Returned /\ method = "gradient_descent"
    /\ result.nit = MaxSteps /\ result.x # x0
    /\ result.x # IterateOf(x0, MaxSteps - 1)

(* C20: each counted pass of steepest_gradient_descent makes exactly one   *)
(* golden_search on [0, 1] with max_steps = 1000 and golden_search's       *)
(* default accuracy, the step it returns lies in [0, 1], and its           *)
(* evaluations are not added to the outer count: nfev = 0, njev = nit.     *)
C20_SteepestLineSearch ==
    method = "steepest_gradient_descent" =>
        /\ Len(line_searches) = nit
        /\ \A k \in DOMAIN line_searches :
              /\ line_searches[k].call.a = 0
              /\ line_searches[k].call.b = Scale
              /\ line_searches[k].call.max_steps = 1000
              /\ line_searches[k].call.accuracy = Scale \div 100000
              /\ line_searches[k].ret.x >= 0
              /\ line_searches[k].ret.x <= Scale
        /\ nfev = 0
        /\ Returned => (result.nfev = 0 /\ result.njev = result.nit)

C20_Witness ==
    /\ Returned /\ method = "steepest_gradient_descent"
    /\ result.nit >= 2 /\ accuracy > 0
    /\ line_searches[1].ret.nfev > 0

----------------------------------------------------------------------------
(* The runs of small_based_tests *)

(* gradient_descent's loop, lines 148-157: the iterations it makes from v, *)
(* n of them made already                                                  *)
RECURSIVE GdNit(_, _, _)
GdNit(v, step, n) ==
    IF n >= max_steps \/ Accepts(v)
    THEN n
    ELSE CHOOSE r \in {GdNit(w, step, n + 1) : w \in {GdUpdate(v, step)}} : TRUE

TestCall ==
    /\ unit = FineUnit /\ x0 = TestStart
    /\ accept_test = "norm_test"
    /\ accuracy = TestAccuracy /\ max_steps = TestMaxSteps

(* C16: gradient_descent on f(x) = sum (x_i - 1)^2 from [4, 3] with        *)
(* step_size 0.1, accept_test ||df(x)||^2 <= 1e-6 and max_steps 2000       *)
(* returns success after fewer than 2000 iterations, with x within 1e-3    *)
(* of [1, 1].                                                              *)
C16_GdConverges ==
    (Returned /\ TestCall /\ method = "gradient_descent"
        /\ step_size = Scale \div 10)
        => /\ result.success
           /\ result.nit < TestMaxSteps
           /\ \A k \in DOMAIN result.x :
                 Abs(result.x[k] - Ones[k]) <= Scale \div 1000

C16_Witness ==
    /\ Returned /\ TestCall /\ method = "gradient_descent"
    /\ step_size = Scale \div 10
    /\ result.success /\ result.nit >= 10

(* C17: from [4, 3] with the same f, df and accept_test,                   *)
(* steepest_gradient_descent returns success, and its iteration count is   *)
(* below the count gradient_descent returns with a fixed step of 0.1 or    *)
(* 0.25.                                                                   *)
C17_SteepestIsFaster ==
    /\ (Returned /\ TestCall /\ method = "gradient_descent")
          => (result.success /\ result.nit = GdNit(x0, step_size, 0))
    /\ (TestCall /\ method = "steepest_gradient_descent")
          => /\ \A step \in TestStepSizes : nit < GdNit(x0, step, 0)
             /\ Returned => (result.success /\ result.nit = nit)

C17_Witness ==
    /\ Returned /\ TestCall /\ method = "steepest_gradient_descent"
    /\ result.success /\ result.nit >= 1

----------------------------------------------------------------------------
(* Repeated calls *)

GdAlone ==
    LET n  == GdNit(x0, step_size, 0)
        ok == n < max_steps
        at == IterateOf(x0, n)
        r  == [success |-> ok, message |-> "", fun |-> VecF(at), jac |-> VecDf(at),
               nfev |-> 0, njev |-> n, nhev |-> 0, nit |-> n, x |-> at]
        traj == [k \in 1..(IF ok THEN n + 1 ELSE n) |-> IterateOf(x0, k - 1)]
    IN  IF trajectory_flag
        THEN [k \in DOMAIN r \cup {"trajectory"} |->
                 IF k = "trajectory" THEN traj ELSE r[k]]
        ELSE r

(* C14: two calls whose passes are interleaved in any order each return    *)
(* the OptimizeResults of the same call run alone: a suspended call        *)
(* resumes with its own counters, bracket, iterate and trajectory.         *)
C14_InterleavedAsAlone ==
    Returned =>
        /\ method = "golden_search" =>
              result = GoldenSearch(f, arg_a, arg_b, accuracy, max_steps)
        /\ method = "gradient_descent" => result = GdAlone

C14_Witness ==
    /\ Returned /\ other # <<>>
    /\ other.mid /\ other.pc = "done"
    /\ method # other.method
    /\ result.nit >= 2 /\ other.result.nit >= 2

----------------------------------------------------------------------------
(* Shape of the brackets *)

(* C21: in binary_search c is the midpoint of the bracket before and after *)
(* every pass; a pass replaces [a, b] by [a, c] when f(y) <= f(c), by      *)
(* [y, z] when instead f(c) <= f(z) and by [c, b] otherwise, with          *)
(* y = (a + c)/2 and z = (b + c)/2, so the width is halved; the x returned *)
(* is the last c and fun is f(c).                                          *)
C21_BinaryHalves ==
    /\ [](method = "binary_search" =>
            /\ 2 * c = a + b
            /\ Returned => (result.x = c /\ result.fun = F(f, c)))
    /\ [][(method = "binary_search" /\ pc = "loop" /\ pc' = "loop") =>
            LET yy == Half(a + c)
                zz == Half(b + c)
            IN  /\ <<a', b'>> = IF F(f, yy) <= F(f, c) THEN <<a, c>>
                                ELSE IF F(f, c) <= F(f, zz) THEN <<yy, zz>>
                                ELSE <<c, b>>
                /\ 2 * (b' - a') = b - a]_vars

C21_Witness ==
    /\ Returned /\ method = "binary_search"
    /\ result.nit = MaxSteps
    /\ arg_a < a /\ b < arg_b

(* C22: in golden_search called with a < b the interior points stay in    *)
(* order, a <= y <= z <= b, at the golden positions a + (b - a)/tau^2 and  *)
(* a + (b - a)/tau of the current bracket (to within the rounding of the   *)
(* grid, at most one unit per pass made); a pass shrinks the bracket to    *)
(* [a, z] when f(y) <= f(z) and to [y, b] otherwise, shifting one interior *)
(* point and recomputing the other; the x returned is (a + b)/2 and lies   *)
(* in the initial bracket.                                                 *)
C22_GoldenPositions ==
    /\ []((method = "golden_search" /\ arg_a < arg_b) =>
            /\ a <= y /\ y <= z /\ z <= b
            /\ Abs(y - (a + OverTauSq(b - a))) <= i
            /\ Abs(z - (a + OverTau(b - a))) <= i
            /\ Returned => /\ result.x = Half(a + b)
                           /\ arg_a <= result.x /\ result.x <= arg_b)
    /\ [][(method = "golden_search" /\ arg_a < arg_b /\ pc = "loop" /\ pc' = "loop") =>
            /\ <<a', b'>> = IF F(f, y) <= F(f, z) THEN <<a, z>> ELSE <<y, b>>
            /\ (y' = z /\ z' = a' + OverTau(b' - a'))
                  \/ (z' = y /\ y' = a' + OverTauSq(b' - a'))]_vars

C22_Witness ==
    /\ Returned /\ method = "golden_search"
    /\ result.nit = MaxSteps
    /\ arg_a < a /\ b < arg_b

(* C23: parabolic_search, validly called, keeps x1 < x2 < x3 inside the    *)
(* initial bracket, and no pass makes x3 - x1 larger.                      *)
C23_TripleOrdered ==
    /\ []((method = "parabolic_search"
              /\ arg_a < arg_b /\ accuracy > 0 /\ max_steps >= 1) =>
            /\ x1 < x2 /\ x2 < x3
            /\ arg_a <= x1 /\ x3 <= arg_b)
    /\ [][(method = "parabolic_search"
              /\ arg_a < arg_b /\ accuracy > 0 /\ max_steps >= 1) =>
            x3' - x1' <= x3 - x1]_vars

(* C24: parabolic_search never returns success = true; with               *)
(* max_steps >= 1 and b - a > accuracy it leaves its loop at the first     *)
(* test, no vertex computed, and returns nit = 0, nfev = 0,                *)
(* success = false and x = (a + b)/2; it computes a vertex only when the   *)
(* initial bracket is no wider than accuracy.                              *)
C24_ParabolicNeverSucceeds ==
    method = "parabolic_search" =>
        /\ ~success
        /\ Returned => ~result.success
        /\ (Returned /\ max_steps >= 1 /\ arg_b - arg_a > accuracy) =>
              /\ result.nit = 0 /\ result.nfev = 0
              /\ result.x = Half(arg_a + arg_b)
              /\ i = 0 /\ f_evals = 4
        /\ (nit > 0 \/ pc = "raised") => arg_b - arg_a <= accuracy

C24_Witness ==
    /\ Returned /\ method = "parabolic_search"
    /\ max_steps >= 1 /\ accuracy > 0 /\ arg_b - arg_a > accuracy
    /\ F(f, Half(arg_a + arg_b)) < F(f, arg_a)
    /\ F(f, Half(arg_a + arg_b)) < F(f, arg_b)

----------------------------------------------------------------------------
(* The benchmark harness: Benchmark.run and Benchmark.__run_solver of      *)
(* src/benchmarx/benchmark.py, and Benchmark.__run_solver of               *)
(* src/src/lib/benchmark.py.  One behaviour of SpecBenchmark is the        *)
(* processing of one method entry (benchmarx), or one __run_solver call    *)
(* (lib).  The solver is the environment: an update moves the iterate,     *)
(* leaves any error level behind and evaluates the traced functions a      *)
(* fixed number of times.  Errors and tolerances are counted in units of   *)
(* 1e-3.  The iterate x_k is modelled by its index k.                      *)

(* Bounds of the explored entries *)
MaxIter == 3
MaxRuns == 2

(* The values state.error takes *)
ErrorLevels == 0..2

(* The 'tol' entries explored *)
Tols == 0..2

(* tol = 0, benchmarx line 128 *)
BenchmarxDefaultTol == 0

(* tol = 1e-3, lib line 91 *)
LibDefaultTol == 1

(* "import custom_optimizer", lib line 15: a module object, which is true  *)
(* where a condition is expected                                           *)
custom_optimizer == TRUE

(* The branches of run: method.startswith(...), and a CustomOptimizer *)
BuiltIns == {"GRADIENT_DESCENT", "BFGS", "LBFGS"}

Conditions == {"wolfe", "strong-wolfe", "armijo", "goldstein"}

LineSearches == {"backtracking", "zoom", "hager-zhang"}

(* _check_linesearch, benchmarx lines 74-86 *)
CheckLinesearch(ls_str, m) ==
    IF m = "GRADIENT_DESCENT" THEN ls_str \in Conditions
    ELSE IF m \in {"BFGS", "LBFGS"} THEN ls_str \in Conditions \/ ls_str \in LineSearches
    ELSE FALSE

(* dict.pop(k) *)
Pop(d, k) == [q \in DOMAIN d \ {k} |-> d[q]]

Absent == "absent"

(* The 'tol' entries of a dict: none, or one value *)
TolEntries == {<<>>} \cup {<<t>> : t \in Tols}

(* A hyperparameter dict: 'maxiter', and 'tol', 'linesearch', 'condition'  *)
(* where given                                                             *)
Hyper(n, t, ls, cd) ==
    [q \in {"maxiter"} \cup (IF t = <<>> THEN {} ELSE {"tol"})
               \cup (IF ls = Absent THEN {} ELSE {"linesearch"})
               \cup (IF cd = Absent THEN {} ELSE {"condition"}) |->
        CASE q = "maxiter" -> n
          [] q = "tol" -> t[1]
          [] q = "linesearch" -> ls
          [] OTHER -> cd]

LsEntries == {Absent, "backtracking", "hager-zhang", "armijo", "bad"}

CondEntries == {Absent, "strong-wolfe", "bad"}

Hypers ==
    {Hyper(n, t, ls, cd) : n \in 1..MaxIter, t \in TolEntries,
                           ls \in LsEntries, cd \in CondEntries}

(* The metrics tracked: "x" and "nit" always are (lines 149, 155) *)
MetricSets == {{"x", "nit"}, {"x", "nit", "nfev", "njev", "f"}}

(* A jaxopt solver built from the dict p; one that searches along a line   *)
(* evaluates the traced functions twice per update, another once          *)
Built(p, searching) ==
    [maxiter |-> p["maxiter"], custom |-> FALSE,
     evals |-> IF searching THEN 2 ELSE 1, stop_criterion |-> {}]

(* CustomOptimizer objects: their stop_criterion(sol, state) is any        *)
(* predicate, here the set of error levels it accepts; their update calls  *)
(* the problem's functions, not the traced ones                            *)
CustomSolvers ==
    {[maxiter |-> n, custom |-> TRUE, evals |-> 0, stop_criterion |-> st] :
        n \in 1..MaxIter, st \in {{}, {0}, {0, 1}, {2}}}

NoSolver == <<>>

(* result = dict(): a list not yet created is the empty list, and          *)
(* result["nit"][0] not yet created is 0                                   *)
EmptyResult == [x |-> <<>>, nit |-> 0, nfev |-> <<>>, njev |-> <<>>, f |-> <<>>]

(* Optimize is not running *)
NoOptimize ==
    /\ unit = CoarseUnit /\ FirstCall
    /\ f = "None" /\ arg_a = 0 /\ arg_b = 0 /\ accuracy = 0 /\ max_steps = 0
    /\ NoDescentArgs /\ NoSearchLocals
    /\ success = FALSE /\ nfev = 0 /\ njev = 0 /\ nit = 0
    /\ accept_calls = <<>> /\ f_evals = 0 /\ df_evals = 0 /\ line_searches = <<>>

optimize == <<f, arg_a, arg_b, accuracy, max_steps, x0, step_size,
              trajectory_flag, accept_test, a, b, c, y, z, x1, x2, x3, f1, f2, f3,
              x, trajectory, success, nfev, njev, nit, accept_calls,
              f_evals, df_evals, line_searches, unit, made, first, other>>

(* benchmarx: run has reached a recognised method entry and computed cls,  *)
(* lines 243-256; the counters are those of __init__, lines 68-70          *)
InitBenchmarx ==
    /\ version = "benchmarx"
    /\ method \in BuiltIns \cup {"custom"}
    /\ IF method = "custom"
          THEN params = <<>> /\ solver \in CustomSolvers /\ cls = FALSE
          ELSE /\ params \in Hypers /\ solver = NoSolver
               /\ cls = ("linesearch" \in DOMAIN params)
               /\ ("condition" \in DOMAIN params => "linesearch" \in DOMAIN params)
    /\ runs \in 1..MaxRuns /\ run = 0 /\ runs_dict = <<>>
    /\ condition = "unbound" /\ kwargs = <<>>
    /\ tol = 0 /\ state = 0 /\ sol = 0 /\ iters_total = 0
    /\ nfev_global = 0 /\ njev_global = 0 /\ nhev_global = 0
    /\ str_metrics_to_track \in MetricSets
    /\ error = "none" /\ run_kwargs = <<>> /\ run_evals = <<0, 0>>
    /\ pc = "entry" /\ i = 0 /\ result = EmptyResult
    /\ NoOptimize

(* What the entry holds while a run is in flight *)
entry == <<method, optimize, version, runs, cls, str_metrics_to_track>>

(* What __run_solver sets before its loop *)
entered == <<kwargs, run_kwargs, nfev_global, njev_global, nhev_global,
             run_evals, result, state, sol, tol, iters_total, i>>

(* An exception leaves run *)
Raise(e) == pc' = "raised" /\ error' = e

(* exit(1) *)
Exit == pc' = "exited" /\ error' = error

(* The GRADIENT_DESCENT branch up to its run loop, lines 258-331 *)
PrepareGd ==
    IF cls
    THEN LET ls == params["linesearch"]
             p1 == Pop(params, "linesearch")
             cond == IF "condition" \in DOMAIN p1 THEN p1["condition"] ELSE condition
             p2 == Pop(p1, "condition")
             ok == /\ solver' = Built(p2, TRUE) /\ pc' = "runs" /\ error' = error
         IN  /\ params' = p2 /\ condition' = cond
             /\ IF ls = "backtracking"
                THEN IF cond = "unbound" THEN Raise("UnboundLocalError") /\ solver' = solver
                     ELSE IF cond \in Conditions THEN ok
                     ELSE Exit /\ solver' = solver
                ELSE IF ls = "hager-zhang" THEN ok
                ELSE Exit /\ solver' = solver
    ELSE /\ solver' = Built(params, FALSE) /\ pc' = "runs"
         /\ UNCHANGED <<params, condition, error>>

(* The BFGS branch up to its run loop, lines 350-409: an unknown line      *)
(* search or condition is logged and replaced                             *)
PrepareBfgs ==
    /\ params' = IF cls THEN Pop(Pop(params, "linesearch"), "condition") ELSE params
    /\ solver' = Built(params', cls)
    /\ pc' = "runs"
    /\ UNCHANGED <<condition, error>>

(* The LBFGS branch, lines 428-443, and the custom branch, lines 574-580,  *)
(* up to their run loops                                                   *)
PrepareOther == pc' = "runs" /\ UNCHANGED <<params, condition, solver, error>>

Prepare ==
    /\ version = "benchmarx" /\ pc = "entry"
    /\ CASE method = "GRADIENT_DESCENT" -> PrepareGd
         [] method = "BFGS" -> PrepareBfgs
         [] OTHER -> PrepareOther
    /\ UNCHANGED <<entry, entered, run, runs_dict>>

(* Mutant: the counter is left as the last run left it *)
KeepCounter(n) == n

(* "self.nfev_global = 0" and its like, lines 101-103 *)
ResetCounter(n) == 0

(* Lines 128-131 *)
BenchmarxTol(sv, kw) ==
    IF ~sv.custom /\ "tol" \in DOMAIN kw THEN kw["tol"] ELSE BenchmarxDefaultTol

(* __run_solver(solver=sv, x_init, **kw) up to its loop, lines 100-136 *)
Enter(sv, kw) ==
    /\ kwargs' = kw /\ run_kwargs' = Append(run_kwargs, kw)
    /\ nfev_global' = ResetCounter(nfev_global)
    /\ njev_global' = ResetCounter(njev_global)
    /\ nhev_global' = ResetCounter(nhev_global)
    /\ run_evals' = <<0, 0>>
    /\ result' = EmptyResult
    /\ state' \in ErrorLevels /\ sol' = 0
    /\ tol' = BenchmarxTol(sv, kw)
    /\ iters_total' = 0 /\ i' = 0
    /\ pc' = "solver_loop" /\ error' = error

(* One pass of "for run in range(self.runs)" up to the loop of             *)
(* __run_solver: lines 333-340, 411-418, 444-490, 581-587                  *)
StartRun ==
    /\ version = "benchmarx" /\ pc = "runs" /\ run < runs
    /\ IF method = "LBFGS" /\ cls
       THEN IF "linesearch" \notin DOMAIN params
            THEN Raise("KeyError") /\ UNCHANGED <<params, solver, entered>>
            ELSE LET ls == params["linesearch"]
                     p1 == Pop(params, "linesearch")
                     cond == IF "condition" \in DOMAIN p1 THEN p1["condition"] ELSE ""
                     p2 == Pop(p1, "condition")
                 IN  /\ params' = p2
                     /\ IF CheckLinesearch(ls, method) /\ cond \notin Conditions
                        THEN Exit /\ UNCHANGED <<solver, entered>>
                        ELSE solver' = Built(p2, TRUE) /\ Enter(solver', p2)
       ELSE IF method = "LBFGS"
       THEN solver' = Built(params, FALSE) /\ Enter(solver', params) /\ params' = params
       ELSE Enter(solver, IF method = "custom" THEN <<>> ELSE params)
            /\ UNCHANGED <<params, solver>>
    /\ UNCHANGED <<entry, condition, run, runs_dict>>

(* "def stop_criterion(err, tol)", lines 125-126 *)
stop_criterion(err, t) == err < t

(* The stop test of lines 140-143 *)
Stops ==
    IF solver.custom THEN state \in solver.stop_criterion
    ELSE stop_criterion(state, tol)

(* "if i > 0", line 138 *)
LaterPass(k) == k > 0

Tracked(m, list, v) == IF m \in str_metrics_to_track THEN Append(list, v) ELSE list

(* The locals of run *)
running == <<params, runs, run, runs_dict, condition, solver, kwargs, tol, error, run_kwargs>>

(* One pass of the loop of __run_solver, lines 137-192: the iterate and    *)
(* the pass are recorded, the solver updates, the counters are recorded    *)
SolverPass ==
    /\ version = "benchmarx" /\ pc = "solver_loop"
    /\ i < solver.maxiter /\ ~(LaterPass(i) /\ Stops)
    /\ iters_total' = IF LaterPass(i) THEN i + 1 ELSE iters_total
    /\ sol' = sol + 1 /\ state' \in ErrorLevels
    /\ nfev_global' = nfev_global + solver.evals
    /\ njev_global' = njev_global + solver.evals
    /\ run_evals' = <<run_evals[1] + solver.evals, run_evals[2] + solver.evals>>
    /\ result' = [result EXCEPT !.x = Append(@, sol), !.nit = @ + 1,
                                !.nfev = Tracked("nfev", @, nfev_global'),
                                !.njev = Tracked("njev", @, njev_global')]
    /\ i' = i + 1
    /\ UNCHANGED <<method, optimize, version, cls, str_metrics_to_track, running, nhev_global, pc>>

(* The stop test ends the loop, lines 138-143 *)
SolverBreak ==
    /\ version = "benchmarx" /\ pc = "solver_loop"
    /\ i < solver.maxiter /\ LaterPass(i) /\ Stops
    /\ iters_total' = i + 1
    /\ pc' = "metrics" /\ i' = 0
    /\ UNCHANGED <<method, optimize, version, cls, str_metrics_to_track, running,
                   nfev_global, njev_global, nhev_global, run_evals, result, state, sol>>

(* range(solver.maxiter) is exhausted *)
SolverExhaust ==
    /\ version = "benchmarx" /\ pc = "solver_loop"
    /\ i >= solver.maxiter
    /\ pc' = "metrics" /\ i' = 0
    /\ UNCHANGED <<method, optimize, version, cls, str_metrics_to_track, running, iters_total,
                   nfev_global, njev_global, nhev_global, run_evals, result, state, sol>>

(* One pass of the metrics loop, lines 195-218, on a recorded iterate *)
MetricsPass ==
    /\ version = "benchmarx" /\ pc = "metrics"
    /\ i < iters_total /\ i + 1 <= Len(result.x)
    /\ sol' = result.x[i + 1]
    /\ result' = [result EXCEPT !.f = Tracked("f", @, sol')]
    /\ i' = i + 1
    /\ UNCHANGED <<method, optimize, version, cls, str_metrics_to_track, running, iters_total,
                   nfev_global, njev_global, nhev_global, run_evals, state, pc>>

(* result["x"][i] past the end of the list, line 196: IndexError *)
MetricsRaise ==
    /\ version = "benchmarx" /\ pc = "metrics"
    /\ i < iters_total /\ i + 1 > Len(result.x)
    /\ pc' = "raised" /\ error' = "IndexError"
    /\ UNCHANGED <<entry, entered, params, run, runs_dict, condition, solver>>

(* "return result", line 220, and runs_dict[f"run_{run}"] = sub *)
RunReturn ==
    /\ version = "benchmarx" /\ pc = "metrics"
    /\ i >= iters_total
    /\ runs_dict' = (run :> result) @@ runs_dict
    /\ run' = run + 1
    /\ pc' = "runs"
    /\ UNCHANGED <<entry, entered, params, condition, solver, error>>

(* The run loop is over and the entry is stored, lines 342-348 *)
Finish ==
    /\ version = "benchmarx" /\ pc = "runs" /\ run >= runs
    /\ pc' = "done"
    /\ UNCHANGED <<entry, entered, params, run, runs_dict, condition, solver, error>>

NextBenchmarx ==
    \/ Prepare \/ StartRun
    \/ SolverPass \/ SolverBreak \/ SolverExhaust
    \/ MetricsPass \/ MetricsRaise \/ RunReturn \/ Finish

(* lib: run calls __run_solver(solver, x_init, metrics, **params), lines   *)
(* 215, 246, 274, 292, 'linesearch' popped from params (line 189), with a  *)
(* jaxopt solver or with the user's CustomOptimizer                        *)
InitLib ==
    /\ version = "lib"
    /\ method \in BuiltIns \cup {"custom"}
    /\ \E n \in 1..MaxIter, t \in TolEntries : params = Hyper(n, t, Absent, Absent)
    /\ cls \in BOOLEAN
    /\ IF method = "custom"
          THEN solver \in CustomSolvers /\ cls = FALSE
          ELSE solver = Built(params, cls)
    /\ runs = 1 /\ run = 0 /\ runs_dict = <<>>
    /\ condition = "unbound" /\ kwargs = params
    /\ tol = 0 /\ state = 0 /\ sol = 0 /\ iters_total = 0
    /\ nfev_global = 0 /\ njev_global = 0 /\ nhev_global = 0
    /\ str_metrics_to_track = {"nit", "history_x"}
    /\ error = "none" /\ run_kwargs = <<params>> /\ run_evals = <<0, 0>>
    /\ pc = "call" /\ i = 0 /\ result = EmptyResult
    /\ NoOptimize

(* Lines 91-94 of lib *)
LibTol(sv, kw) ==
    IF ~custom_optimizer /\ "tol" \in DOMAIN kw THEN kw["tol"] ELSE LibDefaultTol

(* lib's __run_solver up to its loop, lines 69-96 *)
LibEnter ==
    /\ version = "lib" /\ pc = "call"
    /\ result' = EmptyResult
    /\ state' \in ErrorLevels /\ sol' = 0
    /\ tol' = LibTol(solver, kwargs)
    /\ i' = 0 /\ pc' = "solver_loop"
    /\ UNCHANGED <<entry, params, run, runs_dict, condition, solver, kwargs, error,
                   run_kwargs, run_evals, iters_total, nfev_global, njev_global, nhev_global>>

(* One pass of lib's loop, lines 97-142 *)
LibPass ==
    /\ version = "lib" /\ pc = "solver_loop"
    /\ i < solver.maxiter /\ ~(LaterPass(i) /\ Stops)
    /\ result' = [result EXCEPT !.x = Append(@, sol), !.nit = @ + 1]
    /\ sol' = sol + 1 /\ state' \in ErrorLevels
    /\ i' = i + 1
    /\ UNCHANGED <<entry, running, pc, run_evals, iters_total,
                   nfev_global, njev_global, nhev_global>>

(* lib's loop ends, by its stop test or exhausted, and result is returned  *)
(* and stored, lines 98-102, 143-147 and 216                               *)
LibReturn ==
    /\ version = "lib" /\ pc = "solver_loop"
    /\ i >= solver.maxiter \/ (LaterPass(i) /\ Stops)
    /\ runs_dict' = (run :> result) @@ runs_dict
    /\ run' = run + 1
    /\ pc' = "done"
    /\ UNCHANGED <<entry, entered, params, condition, solver, error>>

InitBenchmark == InitBenchmarx \/ InitLib

NextBenchmark == NextBenchmarx \/ LibEnter \/ LibPass \/ LibReturn

SpecBenchmark == InitBenchmark /\ [][NextBenchmark]_vars

----------------------------------------------------------------------------
(* Claims on the benchmark harness *)

(* C25: in __run_solver of benchmarx, once the main loop has ended,        *)
(* iters_total is the number of iterates recorded in result["x"], so that  *)
(* the metrics pass reads result["x"][i] at existing indices only and      *)
(* never raises IndexError, after a break by the stop test and after       *)
(* maxiter, maxiter = 1 included, is exhausted                             *)
C25_MetricsCoverIterates ==
    version = "benchmarx" =>
        /\ pc = "metrics" => iters_total = Len(result.x)
        /\ error # "IndexError"

NonDecreasing(list) == \A k \in 1..(Len(list) - 1) : list[k] <= list[k + 1]

(* The recorded counter list of a result, where the counter is tracked:    *)
(* one entry per recorded iterate and per counted pass, never decreasing   *)
CounterList(res, m, list) ==
    m \in str_metrics_to_track =>
        /\ Len(list) = Len(res.x) /\ Len(list) = res.nit
        /\ NonDecreasing(list)

(* C27: in __run_solver of benchmarx the counters nfev_global, njev_global *)
(* and nhev_global are reset to 0 when a run is entered and change         *)
(* otherwise only by the evaluations of the traced functions; so, during   *)
(* a run and in every stored run, a recorded 'nfev' or 'njev' list is      *)
(* non-decreasing, has one entry per update made (as many as result["x"]   *)
(* and as result["nit"][0]), holds the evaluations of this run alone, and  *)
(* two runs of as many passes have recorded the same lists                 *)
C27_CountersPerRun ==
    /\ [](version = "benchmarx" =>
            /\ pc \in {"solver_loop", "metrics"} =>
                  /\ nfev_global = run_evals[1] /\ njev_global = run_evals[2]
                  /\ nhev_global = 0
                  /\ CounterList(result, "nfev", result.nfev)
                  /\ CounterList(result, "njev", result.njev)
                  /\ (pc = "metrics" /\ "nfev" \in str_metrics_to_track) =>
                        result.nfev[Len(result.nfev)] = run_evals[1]
                  /\ (pc = "metrics" /\ "njev" \in str_metrics_to_track) =>
                        result.njev[Len(result.njev)] = run_evals[2]
            /\ \A j \in DOMAIN runs_dict :
                  /\ CounterList(runs_dict[j], "nfev", runs_dict[j].nfev)
                  /\ CounterList(runs_dict[j], "njev", runs_dict[j].njev)
                  /\ \A k \in DOMAIN runs_dict :
                        runs_dict[j].nit = runs_dict[k].nit =>
                            /\ runs_dict[j].nfev = runs_dict[k].nfev
                            /\ runs_dict[j].njev = runs_dict[k].njev)
    /\ [][(version = "benchmarx" /\ <<nfev_global, njev_global, nhev_global>>'
                                      # <<nfev_global, njev_global, nhev_global>>) =>
            \/ pc = "runs" /\ pc' = "solver_loop"
                 /\ nfev_global' = 0 /\ njev_global' = 0 /\ nhev_global' = 0
            \/ pc = "solver_loop" /\ pc' = "solver_loop" /\ i' = i + 1
                 /\ nfev_global' = nfev_global + solver.evals
                 /\ njev_global' = njev_global + solver.evals
                 /\ nhev_global' = nhev_global]_vars

C27_Witness ==
    /\ version = "benchmarx" /\ pc = "done" /\ runs = MaxRuns
    /\ "nfev" \in str_metrics_to_track
    /\ \A j \in 0..(runs - 1) :
          /\ j \in DOMAIN runs_dict
          /\ runs_dict[j].nit = MaxIter
          /\ runs_dict[j].nfev[1] > 0
          /\ runs_dict[j].nfev[MaxIter] > runs_dict[j].nfev[1]

(* C28: in both versions of __run_solver the stop test of a built-in       *)
(* solver is state.error < tol with tol the 'tol' of the hyperparameters   *)
(* whenever one is given, the stop test of a custom solver is its own      *)
(* stop_criterion(sol, state), and no stop test is made before the first   *)
(* update, so that a loop with maxiter >= 1 makes at least one update      *)
C28_StopTest ==
    /\ []((version \in {"benchmarx", "lib"} /\ pc = "solver_loop"
             /\ ~solver.custom /\ "tol" \in DOMAIN kwargs) => tol = kwargs["tol"])
    /\ [][(version \in {"benchmarx", "lib"} /\ pc = "solver_loop" /\ i < solver.maxiter) =>
            LET given == IF "tol" \in DOMAIN kwargs THEN kwargs["tol"] ELSE tol
                stops == IF solver.custom THEN state \in solver.stop_criterion
                         ELSE state < given
            IN  IF i > 0 /\ stops
                THEN pc' # "solver_loop" /\ sol' = sol /\ result'.nit = result.nit
                ELSE pc' = "solver_loop" /\ sol' = sol + 1 /\ result'.nit = result.nit + 1]_vars
    /\ []((version \in {"benchmarx", "lib"} /\ pc \in {"metrics", "done"}) =>
            \A j \in DOMAIN runs_dict : runs_dict[j].nit >= 1)

(* C26: for a recognised entry of a built-in method, with or without a     *)
(* 'linesearch' or 'condition' entry and for any runs >= 1, run makes      *)
(* exactly runs solver runs, all with the same hyperparameters, and stores *)
(* them as run_0 .. run_{runs-1}: no run is lost to an exception of run's  *)
(* own statements                                                          *)
C26_AllRunsStored ==
    (version = "benchmarx" /\ method \in BuiltIns) =>
        /\ error \notin {"KeyError", "UnboundLocalError"}
        /\ pc = "done" =>
              /\ DOMAIN runs_dict = 0..(runs - 1)
              /\ Len(run_kwargs) = runs
              /\ \A k \in 1..Len(run_kwargs) : run_kwargs[k] = run_kwargs[1]

====
